---- MODULE Spec2Model ----
(***************************************************************************)
(* Model of pcsd/public/js/dev/tests-cluster-setup.js: the developer mock  *)
(* responders of the cluster-setup dialog, the one-time /clusters_overview *)
(* url matcher and the one-shot dialog prefill.                            *)
(*                                                                         *)
(* JavaScript values are records, so that values of different JavaScript   *)
(* types are never compared field by field: undefined is [undef |-> TRUE], *)
(* a number is [num |-> n], a string is [str |-> s], the text produced by  *)
(* JSON.stringify(v) is [json |-> v], an external fixture object is        *)
(* [fixture |-> name, ...].  A request payload is a record whose DOMAIN is *)
(* the set of its properties.  JSON text that the code decodes is a        *)
(* sequence of tokens.                                                     *)
(***************************************************************************)
EXTENDS Naturals, Sequences, FiniteSets

VARIABLES
  wasRun,           \* dev.utils.clusterSetupDialog.wasRun
  dialogCreated,    \* number of clusterSetup.dialog.create() calls made
  form,             \* values of the four form inputs that prefill writes
  dev_flags,        \* the object dev.flags (a flag that is absent is undefined)
  activeScenario,   \* the function handed to dev.runScenario
  trace             \* the calls made so far, each with what it returned/invoked

vars == <<wasRun, dialogCreated, form, dev_flags, activeScenario, trace>>

\* Number of calls (prefill, url matcher, responder) made in one page load.
MaxCalls == 3

----------------------------------------------------------------------------
\* JavaScript values

Undefined == [undef |-> TRUE]
IsUndefined(v) == "undef" \in DOMAIN v
Bool(b) == [bool |-> b]
Num(n) == [num |-> n]
Str(s) == [str |-> s]

\* JSON.stringify(v): the text that encodes v.
JSONstringify(v) == [json |-> v]

\* External fixtures (dev.fixture.*, mock.*): opaque objects.
fixture_success == [fixture |-> "dev.fixture.success"]
fixture_libErrorUnforcibleLarge == [fixture |-> "dev.fixture.libErrorUnforcibleLarge"]
fixture_libException == [fixture |-> "dev.fixture.libException"]
fixture_libError(arg) == [fixture |-> "dev.fixture.libError", arg |-> arg]
mock_clusters_overview == [fixture |-> "mock.clusters_overview"]

----------------------------------------------------------------------------
\* The endpoints

URL_CHECK_AUTH == "/manage/check_auth_against_nodes"
URL_KNOWN_HOSTS == "/manage/send-known-hosts-to-node"
URL_CLUSTER_SETUP == "/manage/cluster-setup"
URL_REMEMBER == "/manage/remember-cluster"
URL_OVERVIEW == "/clusters_overview"

ResponderUrls == {URL_CHECK_AUTH, URL_KNOWN_HOSTS, URL_CLUSTER_SETUP, URL_REMEMBER}
Urls == ResponderUrls \cup {URL_OVERVIEW}

----------------------------------------------------------------------------
\* JSON.parse on the texts the dialog can submit.  A text is a sequence of
\* tokens; the decoder accepts the object with the single member
\* "force_flags" whose value is an array of strings, and rejects the rest
\* (JSON.parse(undefined) is a SyntaxError).

IsPunct(t) == t \in {"{", "}", "[", "]", ":", ","}

RECURSIVE ParseItems(_)
\* items of an array: str ("," str)*; the empty sequence is the empty array.
ParseItems(ts) ==
  IF ts = <<>> THEN [ok |-> TRUE, items |-> <<>>]
  ELSE IF IsPunct(ts[1]) THEN [ok |-> FALSE, items |-> <<>>]
  ELSE IF Len(ts) = 1 THEN [ok |-> TRUE, items |-> <<ts[1]>>]
  ELSE IF ts[2] # "," \/ Len(ts) = 2 THEN [ok |-> FALSE, items |-> <<>>]
  ELSE LET rest == ParseItems(SubSeq(ts, 3, Len(ts)))
       IN  [ok |-> rest.ok, items |-> IF rest.ok THEN <<ts[1]>> \o rest.items ELSE <<>>]

JSONparse(text) ==
  IF IsUndefined(text) THEN [ok |-> FALSE, value |-> <<>>]
  ELSE LET ts == text.tokens
           n  == Len(ts)
       IN  IF /\ n >= 6
              /\ ts[1] = "{" /\ ts[2] = "force_flags" /\ ts[3] = ":"
              /\ ts[4] = "[" /\ ts[n-1] = "]" /\ ts[n] = "}"
              /\ ParseItems(SubSeq(ts, 5, n-2)).ok
           THEN [ok |-> TRUE,
                 value |-> [force_flags |-> ParseItems(SubSeq(ts, 5, n-2)).items]]
           ELSE [ok |-> FALSE, value |-> <<>>]

\* data.<name>: undefined when the payload has no such property.
Prop(data, name) == IF name \in DOMAIN data THEN data[name] ELSE Undefined

----------------------------------------------------------------------------
\* What one responder call does: the callbacks it invokes, in order, and the
\* exception it throws, if any.

NoException == "none"

Returned == [calls |-> <<>>, threw |-> NoException]        \* no case matched
success(args) == [calls |-> <<[cb |-> "success", args |-> args]>>, threw |-> NoException]
fail(args) == [calls |-> <<[cb |-> "fail", args |-> args]>>, threw |-> NoException]
Throw(e) == [calls |-> <<>>, threw |-> e]

\* o1 and then o2, unless o1 threw.
Then(o1, o2) ==
  IF o1.threw # NoException THEN o1
  ELSE [calls |-> o1.calls \o o2.calls, threw |-> o2.threw]

\* JSON.parse(data.setup_data).force_flags.length < 1, or the exception that
\* evaluating it throws.
ForceFlagsEmpty(data) ==
  LET p == JSONparse(Prop(data, "setup_data"))
  IN  IF ~p.ok THEN [threw |-> "SyntaxError", value |-> FALSE]
      ELSE [threw |-> NoException, value |-> Len(p.value.force_flags) < 1]

----------------------------------------------------------------------------
\* testClusterSetup.*: one operator per scenario function.  A JavaScript
\* switch with "return" in every case is a CASE; a switch without a default
\* returns undefined (Returned) for the other urls.

\* Mutant of successPath: the case of "/manage/remember-cluster" is missing.
successPath_noRemember(url, data) ==
  CASE url = URL_CHECK_AUTH ->
         success(<<JSONstringify([dave8 |-> "Online", kryten8 |-> "Online",
                                  holly8 |-> "Online"])>>)
    [] url = URL_KNOWN_HOSTS -> success(<<Str("success")>>)
    [] url = URL_CLUSTER_SETUP -> success(<<JSONstringify(fixture_success)>>)
    [] OTHER -> Returned

successPath(url, data) ==
  CASE url = URL_CHECK_AUTH ->
         success(<<JSONstringify([dave8 |-> "Online", kryten8 |-> "Online",
                                  holly8 |-> "Online"])>>)
    [] url = URL_KNOWN_HOSTS -> success(<<Str("success")>>)
    [] url = URL_CLUSTER_SETUP -> success(<<JSONstringify(fixture_success)>>)
    [] url = URL_REMEMBER -> success(<<>>)
    [] OTHER -> Returned

checkAuth500(url, data) ==
  CASE url = URL_CHECK_AUTH -> fail(<<Num(500), Str("Somethig is wrong")>>)
    [] url = URL_KNOWN_HOSTS -> success(<<Str("success")>>)
    [] OTHER -> Returned

checkAuthFails(url, data) ==
  CASE url = URL_CHECK_AUTH -> fail(<<>>)
    [] OTHER -> Returned

checkAuthNodesNotAuth(url, data) ==
  CASE url = URL_CHECK_AUTH ->
         success(<<JSONstringify([dave8 |-> "Online",
                                  kryten8 |-> "Unable to authenticate",
                                  holly8 |-> "Cant connect"])>>)
    [] OTHER -> Returned

sendKnownHosts403(url, data) ==
  CASE url = URL_KNOWN_HOSTS -> fail(<<Num(403), Str("Permission denied.")>>)
    [] OTHER -> successPath(url, data)

sendKnownHostsFail(url, data) ==
  CASE url = URL_KNOWN_HOSTS -> success(<<Str("error")>>)
    [] OTHER -> successPath(url, data)

\* Mutant of sendKnownHostsUnsupported: a body string outside the protocol.
sendKnownHostsUnsupported_typo(url, data) ==
  CASE url = URL_KNOWN_HOSTS -> success(<<Str("unsupported")>>)
    [] OTHER -> successPath(url, data)

sendKnownHostsUnsupported(url, data) ==
  CASE url = URL_KNOWN_HOSTS -> success(<<Str("not_supported")>>)
    [] OTHER -> successPath(url, data)

sendKnownHostsUnknownFail(url, data) ==
  CASE url = URL_KNOWN_HOSTS -> success(<<Str("unknown")>>)
    [] OTHER -> successPath(url, data)

clusterSetup403(url, data) ==
  CASE url = URL_CLUSTER_SETUP -> fail(<<Num(403), Str("Permission denied.")>>)
    [] OTHER -> successPath(url, data)

\* Mutant of clusterSetup500: the body copied from clusterSetup403 unchanged.
clusterSetup500_copied(url, data) ==
  CASE url = URL_CLUSTER_SETUP -> fail(<<Num(403), Str("Permission denied.")>>)
    [] OTHER -> successPath(url, data)

clusterSetup500(url, data) ==
  CASE url = URL_CLUSTER_SETUP -> fail(<<Num(500), Str("Somethig is wrong")>>)
    [] OTHER -> successPath(url, data)

clusterSetupUnforcible(url, data) ==
  CASE url = URL_CLUSTER_SETUP ->
         success(<<JSONstringify(fixture_libErrorUnforcibleLarge)>>)
    [] OTHER -> successPath(url, data)

clusterSetupException(url, data) ==
  CASE url = URL_CLUSTER_SETUP -> success(<<JSONstringify(fixture_libException)>>)
    [] OTHER -> successPath(url, data)

\* Mutant of clusterSetupForceFail: the comparison reversed (length > 0).
clusterSetupForceFail_reversed(url, data) ==
  CASE url = URL_CLUSTER_SETUP ->
         LET e == ForceFlagsEmpty(data)
         IN  IF e.threw # NoException THEN Throw(e.threw)
             ELSE success(<<JSONstringify(fixture_libError(~e.value))>>)
    [] OTHER -> successPath(url, data)

clusterSetupForceFail(url, data) ==
  CASE url = URL_CLUSTER_SETUP ->
         LET e == ForceFlagsEmpty(data)
         IN  IF e.threw # NoException THEN Throw(e.threw)
             ELSE success(<<JSONstringify(fixture_libError(e.value))>>)
    [] OTHER -> successPath(url, data)

clusterSetupForceFailForcible(url, data) ==
  CASE url = URL_CLUSTER_SETUP -> success(<<JSONstringify(fixture_libError(TRUE))>>)
    [] OTHER -> successPath(url, data)

\* Mutant of clusterSetupForce: success(...) without "return", so that the
\* call goes on into the default.
clusterSetupForce_noReturn(url, data) ==
  CASE url = URL_CLUSTER_SETUP ->
         LET e == ForceFlagsEmpty(data)
         IN  IF e.threw # NoException THEN Throw(e.threw)
             ELSE IF e.value
                  THEN Then(success(<<JSONstringify(fixture_libError(TRUE))>>),
                            successPath(url, data))
                  ELSE successPath(url, data)
    [] OTHER -> successPath(url, data)

\* Mutant of clusterSetupForce: the payload is decoded before the switch.
clusterSetupForce_parseFirst(url, data) ==
  LET e == ForceFlagsEmpty(data)
  IN  IF e.threw # NoException THEN Throw(e.threw)
      ELSE IF url = URL_CLUSTER_SETUP /\ e.value
           THEN success(<<JSONstringify(fixture_libError(TRUE))>>)
           ELSE successPath(url, data)

\* Mutant of clusterSetupForce: a one-shot failure, the error is delivered
\* only when no earlier call of this page load has delivered it.
clusterSetupForce_once(url, data) ==
  CASE url = URL_CLUSTER_SETUP ->
         LET e == ForceFlagsEmpty(data)
             failed == \E i \in 1..Len(trace) :
                          /\ trace[i].op = "responder"
                          /\ trace[i].out.calls =
                               success(<<JSONstringify(fixture_libError(TRUE))>>).calls
         IN  IF e.threw # NoException THEN Throw(e.threw)
             ELSE IF e.value /\ ~failed
                  THEN success(<<JSONstringify(fixture_libError(TRUE))>>)
                  ELSE successPath(url, data)
    [] OTHER -> successPath(url, data)

\* The case of "/manage/cluster-setup" returns only inside its if; with
\* force_flags not empty control falls through to the default.
clusterSetupForce(url, data) ==
  CASE url = URL_CLUSTER_SETUP ->
         LET e == ForceFlagsEmpty(data)
         IN  IF e.threw # NoException THEN Throw(e.threw)
             ELSE IF e.value
                  THEN success(<<JSONstringify(fixture_libError(TRUE))>>)
                  ELSE successPath(url, data)
    [] OTHER -> successPath(url, data)

\* Mutant of rememberFail: the default is missing.
rememberFail_noDefault(url, data) ==
  CASE url = URL_REMEMBER -> fail(<<Num(500), Str("Server error")>>)
    [] OTHER -> Returned

rememberFail(url, data) ==
  CASE url = URL_REMEMBER -> fail(<<Num(500), Str("Server error")>>)
    [] OTHER -> successPath(url, data)

Scenarios ==
  {"successPath", "checkAuth500", "checkAuthFails", "checkAuthNodesNotAuth",
   "sendKnownHosts403", "sendKnownHostsFail", "sendKnownHostsUnsupported",
   "sendKnownHostsUnknownFail", "clusterSetup403", "clusterSetup500",
   "clusterSetupUnforcible", "clusterSetupException", "clusterSetupForceFail",
   "clusterSetupForceFailForcible", "clusterSetupForce", "rememberFail"}

\* testClusterSetup[s](url, data, success, fail)
testClusterSetup(s, url, data) ==
  CASE s = "successPath" -> successPath(url, data)
    [] s = "checkAuth500" -> checkAuth500(url, data)
    [] s = "checkAuthFails" -> checkAuthFails(url, data)
    [] s = "checkAuthNodesNotAuth" -> checkAuthNodesNotAuth(url, data)
    [] s = "sendKnownHosts403" -> sendKnownHosts403(url, data)
    [] s = "sendKnownHostsFail" -> sendKnownHostsFail(url, data)
    [] s = "sendKnownHostsUnsupported" -> sendKnownHostsUnsupported(url, data)
    [] s = "sendKnownHostsUnknownFail" -> sendKnownHostsUnknownFail(url, data)
    [] s = "clusterSetup403" -> clusterSetup403(url, data)
    [] s = "clusterSetup500" -> clusterSetup500(url, data)
    [] s = "clusterSetupUnforcible" -> clusterSetupUnforcible(url, data)
    [] s = "clusterSetupException" -> clusterSetupException(url, data)
    [] s = "clusterSetupForceFail" -> clusterSetupForceFail(url, data)
    [] s = "clusterSetupForceFailForcible" -> clusterSetupForceFailForcible(url, data)
    [] s = "clusterSetupForce" -> clusterSetupForce(url, data)
    [] s = "rememberFail" -> rememberFail(url, data)

----------------------------------------------------------------------------
\* dev.utils.clusterSetupDialog.prefill and the url matcher handed to
\* dev.patch.ajax_wrapper.

EmptyForm == [clustername |-> "", node1 |-> "", node2 |-> "", node3 |-> ""]
FilledForm ==
  [clustername |-> "starbug8", node1 |-> "dave8", node2 |-> "kryten8", node3 |-> "holly8"]

\* Mutant of prefill: the wasRun guard is missing.
prefill_noGuard ==
  /\ wasRun' = TRUE
  /\ dialogCreated' = dialogCreated + 1
  /\ form' = FilledForm

prefill ==
  IF wasRun
  THEN UNCHANGED <<wasRun, dialogCreated, form>>
  ELSE /\ wasRun' = TRUE
       /\ dialogCreated' = dialogCreated + 1
       /\ form' = FilledForm

\* Mutant of urlMatcher: dev.flags.cluster_overview_run is never set.
urlMatcher_noFlag(url, flags) ==
  IF url = URL_OVERVIEW /\ IsUndefined(Prop(flags, "cluster_overview_run"))
  THEN [ret |-> mock_clusters_overview, flags |-> flags]
  ELSE [ret |-> Undefined, flags |-> flags]

\* The matcher: what it returns and the dev.flags it leaves.  The case of
\* "/clusters_overview" returns only inside its if and otherwise falls
\* through to the default.
urlMatcher(url, flags) ==
  IF url = URL_OVERVIEW /\ IsUndefined(Prop(flags, "cluster_overview_run"))
  THEN [ret |-> mock_clusters_overview, flags |-> [cluster_overview_run |-> Bool(TRUE)]]
  ELSE [ret |-> Undefined, flags |-> flags]

----------------------------------------------------------------------------
\* The payloads the model submits: one without setup_data, and setup_data
\* with force_flags [] and ["--force"].  The url matcher is called with the
\* overview url and with one other url.

SetupData(items) == [tokens |-> <<"{", "force_flags", ":", "[">> \o items \o <<"]", "}">>]

Payloads ==
  { [clustername |-> "starbug8"],
    [setup_data |-> SetupData(<<>>)],
    [setup_data |-> SetupData(<<"--force">>)] }

MatcherUrls == {URL_OVERVIEW, URL_CLUSTER_SETUP}

----------------------------------------------------------------------------
\* The page load and the calls made to the three entry points.

Init ==
  /\ wasRun = FALSE
  /\ dialogCreated = 0
  /\ form = EmptyForm
  /\ dev_flags = <<>>
  /\ activeScenario \in Scenarios      \* dev.runScenario(testClusterSetup.<one>)
  /\ trace = <<>>

Prefill ==
  /\ Len(trace) < MaxCalls
  /\ prefill
  /\ trace' = Append(trace, [op |-> "prefill"])
  /\ UNCHANGED <<dev_flags, activeScenario>>

Matcher(url) ==
  /\ Len(trace) < MaxCalls
  /\ LET r == urlMatcher(url, dev_flags)
     IN  /\ dev_flags' = r.flags
         /\ trace' = Append(trace, [op |-> "matcher", url |-> url, ret |-> r.ret])
  /\ UNCHANGED <<wasRun, dialogCreated, form, activeScenario>>

Respond(url, data) ==
  /\ Len(trace) < MaxCalls
  /\ trace' = Append(trace, [op |-> "responder", url |-> url, data |-> data,
                             out |-> testClusterSetup(activeScenario, url, data)])
  /\ UNCHANGED <<wasRun, dialogCreated, form, dev_flags, activeScenario>>

Next ==
  \/ Prefill
  \/ \E url \in MatcherUrls : Matcher(url)
  \/ \E url \in Urls, data \in Payloads : Respond(url, data)

Spec == Init /\ [][Next]_vars

TypeOK ==
  /\ wasRun \in BOOLEAN
  /\ dialogCreated \in 0..MaxCalls
  /\ form \in {EmptyForm, FilledForm}
  /\ activeScenario \in Scenarios
  /\ Len(trace) <= MaxCalls

----------------------------------------------------------------------------
\* Vocabulary of the properties.  The expected values below are written out
\* from the scenario catalogue, independently of the operators above.

HasLast == trace # <<>>
Last == trace[Len(trace)]
IsResponder(e) == e.op = "responder"
IsMatcher(e) == e.op = "matcher"
IsPrefill(e) == e.op = "prefill"
LastResponder == HasLast /\ IsResponder(Last)

NoSetupData == [clustername |-> "starbug8"]
EmptyFlags == [setup_data |-> SetupData(<<>>)]
ForceFlag == [setup_data |-> SetupData(<<"--force">>)]
WellFormed(data) == data \in {EmptyFlags, ForceFlag}

\* "empty", "nonempty", or "none" when the payload carries no force_flags.
FlagsClass(data) ==
  IF data = EmptyFlags THEN "empty"
  ELSE IF data = ForceFlag THEN "nonempty"
  ELSE "none"

OneSuccess(args) == <<[cb |-> "success", args |-> args]>>
OneFail(args) == <<[cb |-> "fail", args |-> args]>>
LibErrorBody(arg) == [json |-> [fixture |-> "dev.fixture.libError", arg |-> arg]]
SuccessBody == [json |-> [fixture |-> "dev.fixture.success"]]

TerminalScenarios == {"checkAuth500", "checkAuthFails", "checkAuthNodesNotAuth"}
DelegatingScenarios == Scenarios \ (TerminalScenarios \cup {"successPath"})

\* The urls for which a scenario has an answer of its own or a delegated one.
Answered(s) ==
  CASE s = "checkAuth500" -> {URL_CHECK_AUTH, URL_KNOWN_HOSTS}
    [] s \in {"checkAuthFails", "checkAuthNodesNotAuth"} -> {URL_CHECK_AUTH}
    [] OTHER -> ResponderUrls

\* The single endpoint a delegating scenario targets.
Target(s) ==
  CASE s \in {"sendKnownHosts403", "sendKnownHostsFail", "sendKnownHostsUnsupported",
              "sendKnownHostsUnknownFail"} -> URL_KNOWN_HOSTS
    [] s = "rememberFail" -> URL_REMEMBER
    [] OTHER -> URL_CLUSTER_SETUP

----------------------------------------------------------------------------
\* C1 (as stated): every scenario, on each of the four responder urls and
\* with a well-formed payload, invokes exactly one callback exactly once.
C1_ExactlyOneCallback ==
  (LastResponder /\ Last.url \in ResponderUrls /\ WellFormed(Last.data))
    => (Last.out.threw = NoException /\ Len(Last.out.calls) = 1)

\* C1 (amended): on the four responder urls with a well-formed payload a call
\* never throws and never invokes more than one callback; it invokes exactly
\* one callback once when the scenario answers the url, and none when the
\* scenario is checkAuth500, checkAuthFails or checkAuthNodesNotAuth and the
\* url is one its switch has no case for.
C1_OneCallbackWhereAnswered ==
  (LastResponder /\ Last.url \in ResponderUrls /\ WellFormed(Last.data))
    => /\ Last.out.threw = NoException
       /\ Len(Last.out.calls) =
            IF Last.url \in Answered(activeScenario) THEN 1 ELSE 0

C1_Witness ==
  /\ activeScenario = "checkAuth500"
  /\ Len(trace) = 2
  /\ IsResponder(trace[1]) /\ trace[1].url = URL_KNOWN_HOSTS
  /\ WellFormed(trace[1].data) /\ Len(trace[1].out.calls) = 1
  /\ IsResponder(trace[2]) /\ trace[2].url = URL_CLUSTER_SETUP
  /\ WellFormed(trace[2].data) /\ trace[2].out.calls = <<>>

\* C2 (as stated): successPath answers each of the five endpoints,
\* "/clusters_overview" included, with exactly one success and no fail.
C2_FiveEndpointsSucceed ==
  (LastResponder /\ activeScenario = "successPath" /\ Last.url \in Urls)
    => /\ Len(Last.out.calls) = 1
       /\ Last.out.calls[1].cb = "success"

\* C2 (amended): successPath, whatever the payload, answers each of the four
\* responder urls with exactly one success and no fail, and does not throw;
\* for "/clusters_overview" it invokes no callback.
C2_FourEndpointsSucceed ==
  (LastResponder /\ activeScenario = "successPath")
    => /\ Last.out.threw = NoException
       /\ Last.url \in ResponderUrls
            => (Len(Last.out.calls) = 1 /\ Last.out.calls[1].cb = "success")
       /\ Last.url = URL_OVERVIEW => Last.out.calls = <<>>

C2_Witness ==
  /\ activeScenario = "successPath"
  /\ LastResponder
  /\ Last.url = URL_REMEMBER
  /\ Last.data = NoSetupData
  /\ Last.out.calls = OneSuccess(<<>>)

\* C3 (as stated): clusterSetupForceFail on "/manage/cluster-setup" delivers
\* libError(false) for empty force_flags and libError(true) otherwise.
C3_EmptyGivesNonForcible ==
  (LastResponder /\ activeScenario = "clusterSetupForceFail"
     /\ Last.url = URL_CLUSTER_SETUP /\ WellFormed(Last.data))
    => Last.out.calls =
         OneSuccess(<<LibErrorBody(FlagsClass(Last.data) = "nonempty")>>)

\* C3 (amended): clusterSetupForceFail on "/manage/cluster-setup" delivers,
\* via success, libError(true) for empty force_flags, which is what
\* clusterSetupForceFailForcible delivers, and libError(false) for force_flags
\* that are not empty.
C3_EmptyGivesForcible ==
  /\ (LastResponder /\ activeScenario = "clusterSetupForceFail"
        /\ Last.url = URL_CLUSTER_SETUP /\ WellFormed(Last.data))
       => /\ Last.out.threw = NoException
          /\ Last.out.calls =
               OneSuccess(<<LibErrorBody(FlagsClass(Last.data) = "empty")>>)
  /\ (LastResponder /\ activeScenario = "clusterSetupForceFailForcible"
        /\ Last.url = URL_CLUSTER_SETUP)
       => Last.out.calls = OneSuccess(<<LibErrorBody(TRUE)>>)

C3_Witness ==
  /\ activeScenario = "clusterSetupForceFail"
  /\ Len(trace) = 2
  /\ IsResponder(trace[1]) /\ trace[1].url = URL_CLUSTER_SETUP
  /\ trace[1].data = EmptyFlags
  /\ trace[1].out.calls = OneSuccess(<<LibErrorBody(TRUE)>>)
  /\ IsResponder(trace[2]) /\ trace[2].url = URL_CLUSTER_SETUP
  /\ trace[2].data = ForceFlag
  /\ trace[2].out.calls = OneSuccess(<<LibErrorBody(FALSE)>>)

\* C4: with clusterSetupForce, a call on "/manage/cluster-setup" with empty
\* force_flags followed by one with ["--force"] first delivers libError(true)
\* and nothing else, then delivers dev.fixture.success; each of the two calls
\* invokes one callback.
ForceThenRetry(i) ==
  /\ activeScenario = "clusterSetupForce"
  /\ IsResponder(trace[i]) /\ trace[i].url = URL_CLUSTER_SETUP
  /\ trace[i].data = EmptyFlags
  /\ IsResponder(trace[i+1]) /\ trace[i+1].url = URL_CLUSTER_SETUP
  /\ trace[i+1].data = ForceFlag

C4_FailThenSucceed ==
  \A i \in 1..(Len(trace) - 1) :
    ForceThenRetry(i)
      => /\ trace[i].out = [calls |-> OneSuccess(<<LibErrorBody(TRUE)>>),
                            threw |-> NoException]
         /\ trace[i+1].out = [calls |-> OneSuccess(<<SuccessBody>>),
                              threw |-> NoException]

C4_Witness ==
  /\ Len(trace) >= 2
  /\ ForceThenRetry(Len(trace) - 1)
  /\ Last.out.calls = OneSuccess(<<SuccessBody>>)

\* C5: the first matcher call with "/clusters_overview" returns
\* mock.clusters_overview and sets dev.flags.cluster_overview_run; every later
\* call with that url, and every call with another url, returns undefined;
\* a call with another url leaves the flag as it was.
OverviewBefore(i) ==
  \E j \in 1..(i-1) : IsMatcher(trace[j]) /\ trace[j].url = URL_OVERVIEW

C5_OverviewOnce ==
  /\ \A i \in 1..Len(trace) :
       IsMatcher(trace[i])
         => trace[i].ret =
              IF trace[i].url = URL_OVERVIEW /\ ~OverviewBefore(i)
              THEN [fixture |-> "mock.clusters_overview"]
              ELSE [undef |-> TRUE]
  /\ ("cluster_overview_run" \in DOMAIN dev_flags) = OverviewBefore(Len(trace) + 1)

C5_Witness ==
  /\ Len(trace) = 3
  /\ IsMatcher(trace[1]) /\ trace[1].url = URL_OVERVIEW
  /\ trace[1].ret = [fixture |-> "mock.clusters_overview"]
  /\ IsMatcher(trace[2]) /\ trace[2].url = URL_CLUSTER_SETUP
  /\ IsMatcher(trace[3]) /\ trace[3].url = URL_OVERVIEW
  /\ trace[3].ret = [undef |-> TRUE]

\* C6: whatever the calls made, the dialog is created and the form filled
\* exactly once, by the first prefill; wasRun is false before it and true
\* ever after, and a later prefill changes nothing.
PrefillCalls == {i \in 1..Len(trace) : IsPrefill(trace[i])}

C6_PrefillOnce ==
  /\ wasRun = (PrefillCalls # {})
  /\ dialogCreated = IF PrefillCalls # {} THEN 1 ELSE 0
  /\ form = IF PrefillCalls # {}
            THEN [clustername |-> "starbug8", node1 |-> "dave8",
                  node2 |-> "kryten8", node3 |-> "holly8"]
            ELSE [clustername |-> "", node1 |-> "", node2 |-> "", node3 |-> ""]

C6_Witness ==
  /\ Len(trace) = 3
  /\ IsPrefill(trace[1]) /\ ~IsPrefill(trace[2]) /\ IsPrefill(trace[3])
  /\ wasRun /\ dialogCreated = 1

\* C7: a delegating scenario called with a url other than the endpoint it
\* targets invokes what successPath invokes for the same url and payload and
\* does not throw, whatever the payload.
C7_DelegationMatchesSuccessPath ==
  (LastResponder /\ activeScenario \in DelegatingScenarios
     /\ Last.url # Target(activeScenario))
    => /\ Last.out.threw = NoException
       /\ Last.out.calls = successPath(Last.url, Last.data).calls

C7_Witness ==
  /\ activeScenario = "clusterSetupForce"
  /\ LastResponder
  /\ Last.url = URL_REMEMBER
  /\ Last.data = NoSetupData
  /\ Last.out = [calls |-> OneSuccess(<<>>), threw |-> NoException]

\* C8: each transport-failure scenario answers its endpoint with one fail
\* carrying the catalogued status (checkAuthFails: no status, no message)
\* and never with success.
TransportFailure(s, url) ==
  \/ s \in {"checkAuth500", "checkAuthFails"} /\ url = URL_CHECK_AUTH
  \/ s = "sendKnownHosts403" /\ url = URL_KNOWN_HOSTS
  \/ s \in {"clusterSetup403", "clusterSetup500"} /\ url = URL_CLUSTER_SETUP
  \/ s = "rememberFail" /\ url = URL_REMEMBER

Status(s) ==
  CASE s \in {"sendKnownHosts403", "clusterSetup403"} -> 403
    [] OTHER -> 500

C8_TransportFailures ==
  (LastResponder /\ TransportFailure(activeScenario, Last.url))
    => /\ Len(Last.out.calls) = 1
       /\ Last.out.calls[1].cb = "fail"
       /\ IF activeScenario = "checkAuthFails"
          THEN Last.out.calls[1].args = <<>>
          ELSE /\ Len(Last.out.calls[1].args) = 2
               /\ Last.out.calls[1].args[1] = [num |-> Status(activeScenario)]

C8_Witness ==
  /\ activeScenario = "clusterSetup500"
  /\ LastResponder
  /\ Last.url = URL_CLUSTER_SETUP
  /\ Last.out.calls[1].cb = "fail"
  /\ Last.out.calls[1].args[1] = [num |-> 500]

\* C9: on "/manage/send-known-hosts-to-node" a success carries one of
\* "success", "error", "not_supported", "unknown": sendKnownHostsFail,
\* sendKnownHostsUnsupported and sendKnownHostsUnknownFail answer, by success
\* only, "error", "not_supported" and "unknown"; every other scenario that
\* answers by success answers "success".
KnownHostsBody(s) ==
  CASE s = "sendKnownHostsFail" -> "error"
    [] s = "sendKnownHostsUnsupported" -> "not_supported"
    [] s = "sendKnownHostsUnknownFail" -> "unknown"
    [] OTHER -> "success"

C9_KnownHostsBodies ==
  (LastResponder /\ Last.url = URL_KNOWN_HOSTS)
    => /\ \A k \in 1..Len(Last.out.calls) :
            Last.out.calls[k].cb = "success"
              => /\ Last.out.calls[k].args = <<[str |-> KnownHostsBody(activeScenario)]>>
                 /\ KnownHostsBody(activeScenario)
                      \in {"success", "error", "not_supported", "unknown"}
       /\ activeScenario \in {"sendKnownHostsFail", "sendKnownHostsUnsupported",
                              "sendKnownHostsUnknownFail"}
            => (Len(Last.out.calls) = 1 /\ Last.out.calls[1].cb = "success")

C9_Witness ==
  /\ activeScenario = "sendKnownHostsUnsupported"
  /\ LastResponder
  /\ Last.url = URL_KNOWN_HOSTS
  /\ Last.out.calls = OneSuccess(<<[str |-> "not_supported"]>>)

\* C10: two responder calls of one page load with the same url and the same
\* emptiness of force_flags invoke the same callbacks with the same
\* arguments, whatever was called in between; wasRun and
\* dev.flags.cluster_overview_run are set by prefill and by the matcher only;
\* clusterSetupForce with empty force_flags delivers libError(true) on every
\* call.
C10_HistoryIndependent ==
  /\ \A i, j \in 1..Len(trace) :
       (/\ i < j
        /\ IsResponder(trace[i]) /\ IsResponder(trace[j])
        /\ trace[i].url = trace[j].url
        /\ FlagsClass(trace[i].data) = FlagsClass(trace[j].data))
         => trace[i].out.calls = trace[j].out.calls
  /\ wasRun = (\E i \in 1..Len(trace) : IsPrefill(trace[i]))
  /\ ("cluster_overview_run" \in DOMAIN dev_flags)
       = (\E i \in 1..Len(trace) : IsMatcher(trace[i]) /\ trace[i].url = URL_OVERVIEW)
  /\ \A i \in 1..Len(trace) :
       (/\ activeScenario = "clusterSetupForce"
        /\ IsResponder(trace[i])
        /\ trace[i].url = URL_CLUSTER_SETUP
        /\ trace[i].data = EmptyFlags)
         => trace[i].out.calls = OneSuccess(<<LibErrorBody(TRUE)>>)

C10_Witness ==
  /\ activeScenario = "clusterSetupForce"
  /\ Len(trace) = 3
  /\ IsResponder(trace[1]) /\ trace[1].url = URL_CLUSTER_SETUP
  /\ trace[1].data = EmptyFlags
  /\ IsPrefill(trace[2])
  /\ IsResponder(trace[3]) /\ trace[3].url = URL_CLUSTER_SETUP
  /\ trace[3].data = EmptyFlags
  /\ trace[3].out.calls = OneSuccess(<<LibErrorBody(TRUE)>>)

====
